---- MODULE Spec2Model ----
(***************************************************************************)
(* QNPtoVox pipeline: the orchestrator (run_qnp_pipeline.py), the stage    *)
(* runner and the per-subject procedures (pipeline_steps.py) and the       *)
(* output ledger (pipeline_utils.py), as a state machine over an abstract  *)
(* filesystem.                                                             *)
(***************************************************************************)
EXTENDS Integers, Sequences, FiniteSets, TLC

VARIABLES
    fs,               \* the paths (directories and files) that exist under output_base
    fs0,              \* fs when the current run of run_pipeline was entered
    pc,               \* "idle" | "begin" | "loop" | "done": position inside run_pipeline
    subjects,         \* run_pipeline argument: the subject list
    steps,            \* run_pipeline argument: the stage list
    force,            \* run_pipeline argument
    dry_run,          \* run_pipeline argument
    kind,             \* "int" (--subjects, type=int) | "str" (comma list of the config)
    k,                \* position in steps of the stage being executed
    runList,          \* execute(): subjects left after the ledger pruned the list
    j,                \* execute(): position in runList of the next subject
    success_count,    \* execute(): success_count
    stageRes,         \* by position: "success" | "failure" (execute returned) | "raised"
    started,          \* history: the positions whose execute() was invoked, in order
    overall_success,  \* run_pipeline: overall_success
    calls,            \* history: every _process_subject invocation of this run, in order:
                      \* its stage, subject, verdict, processes launched and files written
    launched,         \* history: external processes launched in this run
    \* main
    main_pc,          \* "off" | "start" (arguments parsed) | "running" | "exited"
    main_outcome,     \* what main did before the process ended, "" until then
    exit_code,        \* the process exit code: <<>> until the process ends, then <<code>>
    \* _create_processed_file (the annotation joiner)
    join_pc,          \* "idle" | "start" | "done"
    df_tiles,         \* the rows of the tile_coord file: <<Name, X, Y>> cells
    df_at8,           \* the rows of the AT8 file: <<Tile, AT8_Value>> cells
    proc,             \* the tile_proc file written: [cols, rows]
    \* _create_3d_blocks (the volume block builder)
    build_pc,         \* "idle" | "start" | "stamping" | "done" (returned True) | "failed"
    df,               \* the tile_proc table read: [cols, rows]
    manual_coords,    \* the anchor <<x_offset, y_slice, z_offset>>
    img_loads,        \* whether nib.load of the reference volume succeeds
    block_size,       \* config value block_size (its integer part)
    block_size_kind,  \* the type the loader gave it: "int" | "float"
    mask,             \* the volume under construction: voxel -> value
    row_i,            \* position in df.rows of the next record
    written,          \* history: per record processed, the voxels it wrote
    saved,            \* the output files written: subset of {"mask", "coords"}
    \* _extract_coordinates_from_xml (the annotation reader)
    xml_pc,           \* "idle" | "start" | "loop" | "done" | "failed" (returned [] from except)
    annotation_doc,   \* the annotation groups of the document, in document order
    xml_parses,       \* whether ET.parse succeeds on the file
    ann_i,            \* position in annotation_doc of the next group
    coordinates,      \* the list under construction: [Name, X, Y] records
    \* _load_manual_coordinates (the anchor resolver)
    anchor_pc,        \* "idle" | "start" | "loop" | "done" (the resolver returned)
                      \* | "subject_failed" | "building": where _process_subject went on
    coords_file,      \* the lines of the sidecar file, each a sequence of tokens
    coords_opens,     \* whether open(coords_file) succeeds
    anchor_subject,   \* the argument subject_id
    line_i,           \* position in coords_file of the next line
    anchor_ret,       \* the value returned: <<(x, y, z)>>, or <<>> for None
    anchor_log,       \* the error lines logged, in order
    \* PipelineConfig._load_config and PipelineConfig.get (the configuration store)
    conf_pc,          \* "idle" | "start" | "loop" | "loaded" | "raised" (RuntimeError) | "got"
                      \* | "subjects" (get_subjects returned) | "subjects_raised"
    conf_file,        \* the lines of the configuration file, each a sequence of tokens
    conf_opens,       \* whether open(config_path) succeeds
    conf_i,           \* position in conf_file of the next line
    config,           \* the dict under construction: key text -> value
    get_key,          \* the key_path of the last get()
    get_ret,          \* the value the last get() or get_subjects() returned
    \* _extract_at8_values_from_csv (the measurement reader)
    meas_pc,          \* "idle" | "start" | "loop" | "done" | "failed" (returned [] from except)
    summary_df,       \* the rows of the summary table: [tag, region, value]
    meas_subject,     \* the argument subject_id, as the characters of str(subject_id)
    meas_i,           \* position in summary_df of the next row
    at8_values        \* the list under construction: [Tile, AT8_Value] records

mainVars == <<main_pc, main_outcome, exit_code>>

pipeVars == <<fs, fs0, pc, subjects, steps, force, dry_run, kind, k, runList, j,
              success_count, stageRes, started, overall_success, calls, launched, mainVars>>

joinVars == <<join_pc, df_tiles, df_at8, proc>>

buildVars == <<build_pc, df, manual_coords, img_loads, block_size, block_size_kind, mask,
               row_i, written, saved>>

xmlVars == <<xml_pc, annotation_doc, xml_parses, ann_i, coordinates>>

anchorVars == <<anchor_pc, coords_file, coords_opens, anchor_subject, line_i, anchor_ret,
                anchor_log>>

confVars == <<conf_pc, conf_file, conf_opens, conf_i, config, get_key, get_ret>>

measVars == <<meas_pc, summary_df, meas_subject, meas_i, at8_values>>

\* the state of the file readers and of the configuration store
toolVars == <<xmlVars, anchorVars, confVars, measVars>>

vars == <<pipeVars, joinVars, buildVars, toolVars>>

-----------------------------------------------------------------------------
(* Bounds and input domains *)

SubjectA == 6966
SubjectB == 7038
Subjects == {SubjectA, SubjectB}

Stages == {"upsample", "slice", "extract", "transform", "kernel", "mni"}

DefaultSteps == <<"upsample", "slice", "extract", "transform", "kernel">>

\* the six stages in pipeline order (the --steps example of the module docstring)
AllSteps == <<"upsample", "slice", "extract", "transform", "kernel", "mni">>

\* --steps takes one or more stage names, in any order and with repetitions: every
\* stage alone, every stage twice in a row, the default list, the full list and a
\* list out of pipeline order
StepLists ==
    {<<a>> : a \in Stages} \cup {<<a, a>> : a \in Stages}
        \cup {DefaultSteps, AllSteps, <<"mni", "upsample">>}

SubjectLists == {<<SubjectA>>, <<SubjectA, SubjectB>>, <<SubjectB, SubjectA>>}

-----------------------------------------------------------------------------
(* Paths.  A path is [s, d, f]: subject, stage-directory suffix, file name. *)

Base == [s |-> 0, d |-> "", f |-> ""]
Logs == [s |-> 0, d |-> "logs", f |-> ""]

get_subject_output_dir(s) == [s |-> s, d |-> "", f |-> ""]

get_subject_step_dir(s, suffix) == [s |-> s, d |-> suffix, f |-> ""]

File(s, suffix, name) == [s |-> s, d |-> suffix, f |-> name]

UpFile(s)       == File(s, "_upsampled", "001_up_re.nii.gz")
SlicePng(s)     == File(s, "_slices", "slice.png")
TileCoord(s)    == File(s, "_coordinates", "tile_coord.csv")
AT8File(s)      == File(s, "_coordinates", "AT8.csv")
TileProc(s)     == File(s, "_coordinates", "tile_proc.csv")
MaskBlock(s)    == File(s, "_transformation", "QNP_AT8_mask_block.nii.gz")
TransCoords(s)  == File(s, "_transformation", "transformed_coordinates.csv")
AlignedBlock(s) == File(s, "_transformation", "QNP_AT8_mask_block_aligned.nii.gz")
Smoothed(s)     == File(s, "_kernel", "QNP_AT8_smoothed_sig2.nii.gz")
AffineMat(s)    == File(s, "_mni_registration", "0GenericAffine.mat")
WarpNii(s)      == File(s, "_mni_registration", "1Warp.nii.gz")
ToMNI(s)        == File(s, "_mni_registration", "QNP_mask_ToMNI.nii.gz")

get_step_suffix(step) ==
    CASE step = "upsample"  -> "_upsampled"
      [] step = "slice"     -> "_slices"
      [] step = "extract"   -> "_coordinates"
      [] step = "transform" -> "_transformation"
      [] step = "kernel"    -> "_kernel"
      [] step = "mni"       -> "_mni_registration"

IsFile(p) == p.f # ""
IsDir(p)  == p.f = ""

Files(F) == {p \in F : IsFile(p)}
Dirs(F)  == {p \in F : IsDir(p)}

\* the entries of directory dir
Entries(F, dir) == {p \in F : p.s = dir.s /\ p.d = dir.d /\ IsFile(p)}

\* Path.mkdir(parents=True, exist_ok=True) on a stage directory
Mkdirs(F, s, suffix) ==
    F \cup {Base, get_subject_output_dir(s), get_subject_step_dir(s, suffix)}

RECURSIVE SeqToSet(_)
SeqToSet(q) == IF q = <<>> THEN {} ELSE {Head(q)} \cup SeqToSet(Tail(q))

create_output_directories(F, subs) ==
    F \cup {Base, Logs} \cup {get_subject_output_dir(s) : s \in SeqToSet(subs)}

\* exists(subject, stage): the directory exists and holds at least one entry
LedgerExists(F, s, suffix) ==
    /\ get_subject_step_dir(s, suffix) \in F
    /\ Entries(F, get_subject_step_dir(s, suffix)) # {}

check_existing_outputs(F, subs, suffix) ==
    SelectSeq(subs, LAMBDA s : LedgerExists(F, s, suffix))

-----------------------------------------------------------------------------
(* Per-subject procedures.  Each yields the set of outcomes the code can     *)
(* produce: [ok, fs, ext, wr] = the returned verdict, the filesystem          *)
(* afterwards, the external processes launched and the files under           *)
(* output_base written (created or overwritten) during the call.  What the   *)
(* model does not hold (the input files outside output_base, the content of  *)
(* files, the exit status of the external tools) is a choice among the       *)
(* outcomes.                                                                 *)

\* an outcome that wrote the files wr
Wrote(ok, F, ext, wr) == [ok |-> ok, fs |-> F, ext |-> ext, wr |-> wr]

\* an outcome that wrote no file
Out(ok, F, ext) == Wrote(ok, F, ext, {})

\* UpsamplingStep._process_subject
Upsampling_process_subject(F, s, sk, dry) ==
    IF dry THEN {Out(TRUE, F, {})}
    ELSE IF UpFile(s) \in F THEN {Out(TRUE, F, {})}
    ELSE {Out(FALSE, F, {})}

\* mutant: the slicing procedure does not look at dry_run
Slicing_process_subject_NoDryRun(F, s, sk, dry) ==
    IF UpFile(s) \notin F THEN {Out(FALSE, F, {})}
    ELSE LET F1 == Mkdirs(F, s, "_slices")
             R  == {<<"Rscript", s>>}
         IN { Out(FALSE, F1, R), Out(TRUE, F1, R),
              Wrote(TRUE, F1 \cup {SlicePng(s)}, R, {SlicePng(s)}),
              Wrote(FALSE, F1 \cup {SlicePng(s)}, R, {SlicePng(s)}) }

\* SlicingStep._process_subject
Slicing_process_subject(F, s, sk, dry) ==
    IF dry THEN {Out(TRUE, F, {})}
    ELSE IF UpFile(s) \notin F THEN {Out(FALSE, F, {})}
    ELSE LET F1 == Mkdirs(F, s, "_slices")
             R  == {<<"Rscript", s>>}
         IN { Out(FALSE, F1, R),                    \* run_r_script returned False
              Out(TRUE, F1, R),                     \* no <s>_slices directory, or no png in it
              \* slices moved, directory removed
              Wrote(TRUE, F1 \cup {SlicePng(s)}, R, {SlicePng(s)}),
              \* slices moved, rmdir raised
              Wrote(FALSE, F1 \cup {SlicePng(s)}, R, {SlicePng(s)})
            }

\* CoordinateExtractionStep._process_subject
Extraction_process_subject(F, s, sk, dry) ==
    LET F1 == Mkdirs(F, s, "_coordinates")          \* made before dry_run is looked at
    IN IF dry THEN {Out(TRUE, F1, {})}
       ELSE { Out(FALSE, F1, {}),                   \* annotation or summary missing, no coordinates
              Wrote(TRUE, F1 \cup {TileCoord(s), AT8File(s), TileProc(s)}, {},
                    {TileCoord(s), AT8File(s), TileProc(s)}) }

\* CoordinateTransformationStep._process_subject
Transformation_process_subject(F, s, sk, dry) ==
    IF dry THEN {Out(TRUE, F, {})}
    ELSE IF TileProc(s) \notin F THEN {Out(FALSE, F, {})}
    ELSE IF UpFile(s) \notin F THEN {Out(FALSE, F, {})}
    ELSE LET F1 == Mkdirs(F, s, "_transformation")
         IN { Out(FALSE, F, {}),                    \* sidecar file missing, or no anchor
              Out(FALSE, F1, {}),                   \* the build failed before the volume was saved
              \* volume saved, coordinates write failed
              Wrote(FALSE, F1 \cup {MaskBlock(s)}, {}, {MaskBlock(s)}),
              Wrote(TRUE, F1 \cup {MaskBlock(s), TransCoords(s)}, {},
                    {MaskBlock(s), TransCoords(s)}) }

\* KernelApplicationStep._process_subject
\* Path(...) / subject_id raises TypeError for an int subject_id, inside the try
Kernel_process_subject(F, s, sk, dry) ==
    IF sk = "int" THEN {Out(FALSE, F, {})}
    ELSE IF dry THEN {Out(TRUE, F, {})}
    ELSE LET F1 == Mkdirs(F, s, "_kernel")
         IN IF Smoothed(s) \in F1 THEN {Out(TRUE, F1, {})}
            ELSE IF AlignedBlock(s) \notin F1 THEN {Out(FALSE, F1, {})}
            ELSE { Wrote(TRUE, F1 \cup {Smoothed(s)}, {}, {Smoothed(s)}),  \* _apply_kernel succeeded
                   Out(FALSE, F1, {}) }                    \* _apply_kernel failed

\* MNIRegistrationStep._register_to_mni
register_to_mni(F, s) ==
    IF AffineMat(s) \in F /\ WarpNii(s) \in F THEN {Out(TRUE, F, {})}
    ELSE LET R == {<<"antsRegistrationSyN.sh", s>>}
         IN { Wrote(TRUE, F \cup {AffineMat(s), WarpNii(s)}, R, {AffineMat(s), WarpNii(s)}),
              Out(TRUE, F, R),                      \* exit status 0, files under other names
              Out(FALSE, F, R),
              Wrote(FALSE, F \cup {AffineMat(s)}, R, {AffineMat(s)}) }

\* MNIRegistrationStep._transform_kernel_to_mni
transform_kernel_to_mni(F, s) ==
    IF ToMNI(s) \in F THEN {Out(TRUE, F, {})}
    ELSE IF AffineMat(s) \notin F THEN {Out(FALSE, F, {})}
    ELSE IF WarpNii(s) \notin F THEN {Out(FALSE, F, {})}
    ELSE LET R == {<<"antsApplyTransforms", s>>}
         IN { Wrote(TRUE, F \cup {ToMNI(s)}, R, {ToMNI(s)}),
              Out(FALSE, F, R) }

\* MNIRegistrationStep._process_subject
MNI_process_subject(F, s, sk, dry) ==
    IF sk = "int" THEN {Out(FALSE, F, {})}
    ELSE IF dry THEN {Out(TRUE, F, {})}
    ELSE LET F1 == Mkdirs(F, s, "_mni_registration")
         IN IF UpFile(s) \notin F1 THEN {Out(FALSE, F1, {})}
            ELSE IF Smoothed(s) \notin F1 THEN {Out(FALSE, F1, {})}
            ELSE {Out(FALSE, F1, {})}               \* MNI template not found
                 \cup UNION { IF r.ok
                              THEN { Wrote(t.ok, t.fs, r.ext \cup t.ext, r.wr \cup t.wr) :
                                        t \in transform_kernel_to_mni(r.fs, s) }
                              ELSE {r}
                              : r \in register_to_mni(F1, s) }

\* step_functions[step]._process_subject
process_subject(step, F, s, sk, dry) ==
    CASE step = "upsample"  -> Upsampling_process_subject(F, s, sk, dry)
      [] step = "slice"     -> Slicing_process_subject(F, s, sk, dry)
      [] step = "extract"   -> Extraction_process_subject(F, s, sk, dry)
      [] step = "transform" -> Transformation_process_subject(F, s, sk, dry)
      [] step = "kernel"    -> Kernel_process_subject(F, s, sk, dry)
      [] step = "mni"       -> MNI_process_subject(F, s, sk, dry)

-----------------------------------------------------------------------------
(* The filesystem a run starts from: for every subject, what the stages and  *)
(* the manual steps of earlier runs left, up to some stage.                  *)

Produced(s, n) ==
    CASE n = 1 -> {get_subject_step_dir(s, "_upsampled"), UpFile(s)}
      [] n = 2 -> {get_subject_step_dir(s, "_slices"), SlicePng(s)}
      [] n = 3 -> {get_subject_step_dir(s, "_coordinates"), TileCoord(s), AT8File(s), TileProc(s)}
      [] n = 4 -> {get_subject_step_dir(s, "_transformation"), MaskBlock(s), TransCoords(s)}
      [] n = 5 -> {AlignedBlock(s)}
      [] n = 6 -> {get_subject_step_dir(s, "_kernel"), Smoothed(s)}
      [] n = 7 -> {get_subject_step_dir(s, "_mni_registration"), AffineMat(s), WarpNii(s), ToMNI(s)}

\* 2 and 4 add nothing a later stage reads
Levels == {0, 1, 3, 5, 6, 7}

LevelFS(s, lv) ==
    IF lv = 0 THEN {}
    ELSE {Base, Logs, get_subject_output_dir(s)} \cup UNION {Produced(s, n) : n \in 1 .. lv}

InitialFS == {UNION {LevelFS(s, lv[s]) : s \in Subjects} : lv \in [Subjects -> Levels]}

-----------------------------------------------------------------------------
(* The annotation joiner: CoordinateExtractionStep._create_processed_file.   *)
(* A csv cell is <<v>> (a value) or <<>> (empty: None when written, NaN when  *)
(* read back); a table is its header and its rows of cells.                  *)

MaxCoords == 6
MaxMeas == 3

Some(v) == <<v>>
None == <<>>

\* annotation vertices: micrometre-scaled X and Y, negative and positive, and a
\* vertex without an X attribute
CoordRows ==
    { <<Some("Tile 1"), Some(1500), Some(-2500)>>,
      <<Some("Tile 2"), Some(12999), Some(3000)>>,
      <<Some("Tile 3"), None, Some(0)>> }

\* percentage-positive measurements, whole numbers standing for the floats
MeasRows == { <<Some("Tile 1"), Some(5)>>, <<Some("Tile 2"), Some(9)>> }

SeqsUpTo(S, n) == UNION {[1 .. m -> S] : m \in 0 .. n}

\* int(cell): raises on an empty cell
IntRaises(cell) == cell = None

\* int(cell) // 1000, Python's floor division
FloorDiv1000(cell) == Some(cell[1] \div 1000)

\* lines 388-394: row i (from 0) of tile_coords, None where 5*i is past the coordinates
JoinRow(tiles, at8, i) ==
    LET y == 5 * i
    IN IF y < Len(tiles)
       THEN << tiles[y + 1][1], FloorDiv1000(tiles[y + 1][2]), FloorDiv1000(tiles[y + 1][3]),
               at8[i + 1][2] >>
       ELSE << None, None, None, None >>

\* line 392-393 raises for some row the loop reaches
JoinRaises(tiles, at8) ==
    \E i \in 0 .. Len(at8) - 1 :
       /\ 5 * i < Len(tiles)
       /\ IntRaises(tiles[5 * i + 1][2]) \/ IntRaises(tiles[5 * i + 1][3])

\* the file _create_processed_file leaves at output_file
create_processed_file(tiles, at8) ==
    IF tiles = <<>>
    THEN \* read_csv raises on the empty coordinate file: the copy of line 406
         [cols |-> <<>>, rows |-> <<>>]
    ELSE IF Len(at8) = 0
    THEN \* lines 378-382: the coordinates with a column AT8 of zeros
         [cols |-> <<"Name", "X", "Y", "AT8">>,
          rows |-> [r \in 1 .. Len(tiles) |-> tiles[r] \o <<Some(0)>>]]
    ELSE IF JoinRaises(tiles, at8)
    THEN \* lines 403-406: the coordinate file copied
         [cols |-> <<"Name", "X", "Y">>, rows |-> tiles]
    ELSE \* lines 385-401
         [cols |-> <<"Tile", "X", "Z", "AT8">>,
          rows |-> [r \in 1 .. Len(at8) |-> JoinRow(tiles, at8, r - 1)]]

NoTable == [cols |-> <<>>, rows |-> <<>>]

JoinIdle ==
    /\ join_pc = "idle"
    /\ df_tiles = <<>>
    /\ df_at8 = <<>>
    /\ proc = NoTable

PipeIdle ==
    /\ fs = {}
    /\ fs0 = {}
    /\ pc = "off"
    /\ subjects = <<>>
    /\ steps = <<>>
    /\ force = FALSE
    /\ dry_run = FALSE
    /\ kind = "str"
    /\ k = 0
    /\ runList = <<>>
    /\ j = 0
    /\ success_count = 0
    /\ stageRes = <<>>
    /\ started = <<>>
    /\ overall_success = TRUE
    /\ calls = <<>>
    /\ launched = {}
    /\ main_pc = "off"
    /\ main_outcome = ""
    /\ exit_code = <<>>

XmlIdle ==
    /\ xml_pc = "idle"
    /\ annotation_doc = <<>>
    /\ xml_parses = TRUE
    /\ ann_i = 0
    /\ coordinates = <<>>

AnchorIdle ==
    /\ anchor_pc = "idle"
    /\ coords_file = <<>>
    /\ coords_opens = TRUE
    /\ anchor_subject = 0
    /\ line_i = 0
    /\ anchor_ret = <<>>
    /\ anchor_log = <<>>

\* Python's None
PyNone == [kind |-> "None"]

\* {}
EmptyDict == [key \in {} |-> PyNone]

ConfIdle ==
    /\ conf_pc = "idle"
    /\ conf_file = <<>>
    /\ conf_opens = TRUE
    /\ conf_i = 0
    /\ config = EmptyDict
    /\ get_key = <<>>
    /\ get_ret = PyNone

MeasIdle ==
    /\ meas_pc = "idle"
    /\ summary_df = <<>>
    /\ meas_subject = <<>>
    /\ meas_i = 0
    /\ at8_values = <<>>

ToolIdle ==
    /\ XmlIdle
    /\ AnchorIdle
    /\ ConfIdle
    /\ MeasIdle

-----------------------------------------------------------------------------
(* The volume block builder: CoordinateTransformationStep._create_3d_blocks *)

MaxRecords == 2
DimX == 3
DimY == 3
DimZ == 3
DefaultBlockSize == 7

\* img.shape
Shape == <<DimX, DimY, DimZ>>

Voxels == (0 .. DimX - 1) \X (0 .. DimY - 1) \X (0 .. DimZ - 1)

BlockSizes == {1, 2, 3, DefaultBlockSize}

\* config.get('block_size', 7): an int, or what the loader made of another token,
\* here a float such as 7.5 (a str or a list raises in the same place)
BlockSizeValues ==
    {<<b, "int">> : b \in BlockSizes} \cup {<<DefaultBlockSize, "float">>}

\* anchors that put records inside the volume and outside it on each axis
Anchors == {-1, 0, 2} \X {-1, 1, DimY} \X {0, DimZ}

\* rows of a tile_proc file: joined records, and the empty row the join leaves
TileRows ==
    { <<Some("Tile 1"), Some(0), Some(0), Some(5)>>,
      <<Some("Tile 2"), Some(1), Some(0), Some(9)>>,
      <<Some("Tile 3"), Some(0), Some(2), Some(9)>>,
      <<None, None, None, None>> }

JoinedCols == <<"Tile", "X", "Z", "AT8">>

\* the tile_proc files of the three paths of _create_processed_file
Tables ==
    {[cols |-> JoinedCols, rows |-> r] : r \in SeqsUpTo(TileRows, MaxRecords)}
        \cup { [cols |-> <<"Name", "X", "Y", "AT8">>,
                rows |-> << <<Some("Tile 1"), Some(1500), Some(2500), Some(0)>> >>],
               [cols |-> <<"Name", "X", "Y">>,
                rows |-> << <<Some("Tile 3"), None, Some(0)>> >>] }

HasCol(tab, name) == \E c \in 1 .. Len(tab.cols) : tab.cols[c] = name

\* row[name]
Cell(tab, r, name) ==
    tab.rows[r][CHOOSE c \in 1 .. Len(tab.cols) : tab.cols[c] = name]

\* lines 516-528: reading record r raises (a column is missing: KeyError; int() of
\* an empty cell: ValueError)
RecordRaises(tab, r) ==
    \/ ~HasCol(tab, "Tile")
    \/ ~HasCol(tab, "X")
    \/ ~HasCol(tab, "Z")
    \/ ~HasCol(tab, "AT8")
    \/ IntRaises(Cell(tab, r, "X"))
    \/ IntRaises(Cell(tab, r, "Z"))

\* lines 533-534: half_block = block_size // 2 and range(-half_block, half_block + 1)
\* raise TypeError for a block_size that is not an int
RangeRaises(bs_kind) == bs_kind # "int"

\* lines 526-528: the absolute coordinate of record r
AbsCoord(tab, r, anchor) ==
    << Cell(tab, r, "X")[1] + anchor[1], anchor[2], Cell(tab, r, "Z")[1] + anchor[3] >>

\* mutant: the upper bound of the check is inclusive
InBounds_OffByOne(v) ==
    /\ 0 <= v[1] /\ v[1] <= DimX
    /\ 0 <= v[2] /\ v[2] <= DimY
    /\ 0 <= v[3] /\ v[3] <= DimZ

\* line 531 (and 538-540): the coordinate lies in the volume
InBounds(v) ==
    /\ 0 <= v[1] /\ v[1] < Shape[1]
    /\ 0 <= v[2] /\ v[2] < Shape[2]
    /\ 0 <= v[3] /\ v[3] < Shape[3]

\* lines 533-541: the voxels the block around p writes
BlockVoxels(p, bs) ==
    LET half_block == bs \div 2
        D == (0 - half_block) .. half_block
    IN {v \in {<<p[1] + dx, p[2] + dy, p[3] + dz>> : dx \in D, dy \in D, dz \in D} :
          InBounds(v)}

\* lines 531-536: record r is read, lies in the volume, and the loops over the
\* block raise
BlockRaises(tab, r, anchor, bs_kind) ==
    /\ ~RecordRaises(tab, r)
    /\ InBounds(AbsCoord(tab, r, anchor))
    /\ RangeRaises(bs_kind)

\* lines 531-545: the voxels record r writes
RecordVoxels(tab, r, anchor, bs) ==
    IF InBounds(AbsCoord(tab, r, anchor))
    THEN BlockVoxels(AbsCoord(tab, r, anchor), bs)
    ELSE {}

BuildIdle ==
    /\ build_pc = "idle"
    /\ df = NoTable
    /\ manual_coords = <<0, 0, 0>>
    /\ img_loads = TRUE
    /\ block_size = DefaultBlockSize
    /\ block_size_kind = "int"
    /\ mask = [v \in Voxels |-> 0]
    /\ row_i = 0
    /\ written = <<>>
    /\ saved = {}

InitBuild ==
    /\ PipeIdle
    /\ JoinIdle
    /\ ToolIdle
    /\ build_pc = "start"
    /\ df \in Tables
    /\ manual_coords \in Anchors
    /\ img_loads \in BOOLEAN
    /\ \E value \in BlockSizeValues : block_size = value[1] /\ block_size_kind = value[2]
    /\ mask = [v \in Voxels |-> 0]
    /\ row_i = 0
    /\ written = <<>>
    /\ saved = {}

\* lines 497-513: the table is read, the reference volume loaded, the mask zeroed
BuildLoad ==
    /\ build_pc = "start"
    /\ IF img_loads
       THEN build_pc' = "stamping" /\ row_i' = 1
       ELSE build_pc' = "failed" /\ row_i' = row_i
    /\ UNCHANGED <<df, manual_coords, img_loads, block_size, block_size_kind, mask, written, saved>>
    /\ UNCHANGED <<pipeVars, joinVars, toolVars>>

\* mutant: a voxel an earlier record wrote keeps its value
BuildStamp_FirstWriteWins ==
    /\ build_pc = "stamping"
    /\ row_i <= Len(df.rows)
    /\ IF RecordRaises(df, row_i) \/ BlockRaises(df, row_i, manual_coords, block_size_kind)
       THEN /\ build_pc' = "failed"
            /\ UNCHANGED <<mask, row_i, written>>
       ELSE LET W == RecordVoxels(df, row_i, manual_coords, block_size)
            IN /\ mask' = [v \in Voxels |->
                              IF v \in W /\ mask[v] = 0 THEN Cell(df, row_i, "AT8")[1] ELSE mask[v]]
               /\ written' = Append(written, W)
               /\ row_i' = row_i + 1
               /\ UNCHANGED build_pc
    /\ UNCHANGED <<df, manual_coords, img_loads, block_size, block_size_kind, saved>>
    /\ UNCHANGED <<pipeVars, joinVars, toolVars>>

\* lines 515-545: one iteration of the loop over the records
BuildStamp ==
    /\ build_pc = "stamping"
    /\ row_i <= Len(df.rows)
    /\ IF RecordRaises(df, row_i) \/ BlockRaises(df, row_i, manual_coords, block_size_kind)
       THEN /\ build_pc' = "failed"
            /\ UNCHANGED <<mask, row_i, written>>
       ELSE LET W == RecordVoxels(df, row_i, manual_coords, block_size)
            IN /\ mask' = [v \in Voxels |-> IF v \in W THEN Cell(df, row_i, "AT8")[1] ELSE mask[v]]
               /\ written' = Append(written, W)
               /\ row_i' = row_i + 1
               /\ UNCHANGED build_pc
    /\ UNCHANGED <<df, manual_coords, img_loads, block_size, block_size_kind, saved>>
    /\ UNCHANGED <<pipeVars, joinVars, toolVars>>

\* lines 547-582: the volume is saved, then the transformed coordinates; either
\* write can raise
BuildSave(mask_ok, coords_ok) ==
    /\ build_pc = "stamping"
    /\ row_i > Len(df.rows)
    /\ saved' = IF ~mask_ok THEN {} ELSE IF ~coords_ok THEN {"mask"} ELSE {"mask", "coords"}
    /\ build_pc' = IF mask_ok /\ coords_ok THEN "done" ELSE "failed"
    /\ UNCHANGED <<df, manual_coords, img_loads, block_size, block_size_kind, mask, row_i, written>>
    /\ UNCHANGED <<pipeVars, joinVars, toolVars>>

NextBuild ==
    \/ BuildLoad
    \/ BuildStamp
    \/ \E mask_ok \in BOOLEAN, coords_ok \in BOOLEAN : BuildSave(mask_ok, coords_ok)

SpecBuild == InitBuild /\ [][NextBuild]_vars

-----------------------------------------------------------------------------
(* The joiner as a specification of its own: every input, one call *)

InitJoin ==
    /\ PipeIdle
    /\ join_pc = "start"
    /\ df_tiles \in SeqsUpTo(CoordRows, MaxCoords)
    /\ df_at8 \in SeqsUpTo(MeasRows, MaxMeas)
    /\ proc = NoTable
    /\ BuildIdle
    /\ ToolIdle

CreateProcessedFile ==
    /\ join_pc = "start"
    /\ proc' = create_processed_file(df_tiles, df_at8)
    /\ join_pc' = "done"
    /\ UNCHANGED <<df_tiles, df_at8>>
    /\ UNCHANGED <<pipeVars, buildVars, toolVars>>

NextJoin == CreateProcessedFile

SpecJoin == InitJoin /\ [][NextJoin]_vars

-----------------------------------------------------------------------------
(* The stage runner: BaseStep.execute and MNIRegistrationStep.execute *)

\* mutant: the ledger prunes although force is set
Partition_IgnoreForce(F, subs, suffix, frc) ==
    LET existing == SeqToSet(check_existing_outputs(F, subs, suffix))
    IN SelectSeq(subs, LAMBDA s : s \notin existing)

\* the elements of S in ascending order
RECURSIVE Ascending(_)
Ascending(S) ==
    IF S = {} THEN <<>>
    ELSE LET m == CHOOSE x \in S : \A y \in S : x <= y
         IN <<m>> \o Ascending(S \ {m})

\* mutant: the subjects left are computed as a set difference, which loses the
\* order of the list
Partition_SetDifference(F, subs, suffix, frc) ==
    IF frc THEN subs
    ELSE Ascending(SeqToSet(subs) \ SeqToSet(check_existing_outputs(F, subs, suffix)))

\* BaseStep.execute, lines 49-53: the subjects left to run
Partition(F, subs, suffix, frc) ==
    IF frc THEN subs
    ELSE LET existing == SeqToSet(check_existing_outputs(F, subs, suffix))
         IN SelectSeq(subs, LAMBDA s : s \notin existing)

\* the subjects execute() of a stage iterates over
RunListOf(step, F, subs, frc) ==
    IF step = "mni" THEN subs
    ELSE Partition(F, subs, get_step_suffix(step), frc)

\* mutant: one successful subject is enough
StageVerdict_AnySuccess(count, n) == IF count > 0 \/ n = 0 THEN "success" ELSE "failure"

\* the verdict execute() returns
StageVerdict(count, n) == IF count = n THEN "success" ELSE "failure"

-----------------------------------------------------------------------------
(* The orchestrator: QNPPipeline.run_pipeline *)

Init ==
    /\ fs \in InitialFS
    /\ fs0 = fs
    /\ pc = "idle"
    /\ subjects = <<>>
    /\ steps = <<>>
    /\ force = FALSE
    /\ dry_run = FALSE
    /\ kind = "str"
    /\ k = 0
    /\ runList = <<>>
    /\ j = 0
    /\ success_count = 0
    /\ stageRes = <<>>
    /\ started = <<>>
    /\ overall_success = TRUE
    /\ calls = <<>>
    /\ launched = {}
    /\ main_pc = "start"
    /\ main_outcome = ""
    /\ exit_code = <<>>
    /\ JoinIdle
    /\ BuildIdle
    /\ ToolIdle

\* run_pipeline up to the loop over the steps
StartRun(subs, sts, frc, dry, sk) ==
    /\ pc = "idle"
    /\ main_pc = "start"
    /\ main_pc' = "running"
    /\ UNCHANGED <<main_outcome, exit_code>>
    /\ subjects' = subs
    /\ steps' = sts
    /\ force' = frc
    /\ dry_run' = dry
    /\ kind' = sk
    /\ fs0' = fs
    /\ fs' = create_output_directories(fs, subs)
    /\ pc' = "begin"
    /\ k' = 1
    /\ runList' = <<>>
    /\ j' = 0
    /\ success_count' = 0
    /\ stageRes' = <<>>
    /\ started' = <<>>
    /\ overall_success' = TRUE
    /\ calls' = <<>>
    /\ launched' = {}
    /\ UNCHANGED <<joinVars, buildVars, toolVars>>

\* mutant: the loop over the steps does not break on a failed stage
StageReturns_NoBreak(res) ==
    /\ stageRes' = Append(stageRes, res)
    /\ overall_success' = (overall_success /\ res = "success")
    /\ IF k < Len(steps)
       THEN k' = k + 1 /\ pc' = "begin"
       ELSE k' = k /\ pc' = "done"

\* mutant: a stage that failed is executed a second time
StageReturns_RetryOnce(res) ==
    /\ stageRes' = Append(stageRes, res)
    /\ IF res = "success"
       THEN /\ overall_success' = overall_success
            /\ IF k < Len(steps)
               THEN k' = k + 1 /\ pc' = "begin"
               ELSE k' = k /\ pc' = "done"
       ELSE IF Len(stageRes) < k
       THEN /\ overall_success' = overall_success
            /\ k' = k
            /\ pc' = "begin"
       ELSE /\ overall_success' = FALSE
            /\ k' = k
            /\ pc' = "done"

\* run_pipeline, lines 186-194: execute() of the stage at position k returned its
\* verdict ("success" | "failure") or raised ("raised")
StageReturns(res) ==
    /\ stageRes' = Append(stageRes, res)
    /\ IF res = "success"
       THEN /\ overall_success' = overall_success
            /\ IF k < Len(steps)
               THEN k' = k + 1 /\ pc' = "begin"
               ELSE k' = k /\ pc' = "done"
       ELSE /\ overall_success' = FALSE
            /\ k' = k
            /\ pc' = "done"

\* execute() up to its loop: the ledger prunes the list, the directories are made.
\* readable = FALSE: the ledger's directory listing raises (line 270), so execute raises.
BeginStage(readable) ==
    /\ main_pc = "running"
    /\ pc = "begin"
    /\ LET step == steps[k]
           run  == RunListOf(step, fs, subjects, force)
       IN IF step # "mni" /\ ~force /\ ~readable
          THEN /\ StageReturns("raised")
               /\ runList' = <<>>
               /\ UNCHANGED <<fs, j, success_count>>
          ELSE IF step # "mni" /\ run = <<>>
          THEN /\ StageReturns("success")
               /\ runList' = run
               /\ UNCHANGED <<fs, j, success_count>>
          ELSE /\ fs' = IF step = "mni" THEN fs ELSE create_output_directories(fs, run)
               /\ runList' = run
               /\ j' = 1
               /\ success_count' = 0
               /\ pc' = "loop"
               /\ UNCHANGED <<k, stageRes, overall_success>>
    /\ started' = Append(started, k)
    /\ UNCHANGED <<fs0, subjects, steps, force, dry_run, kind, calls, launched, mainVars>>
    /\ UNCHANGED <<joinVars, buildVars, toolVars>>

\* mutant: the loop over the subjects ends at the first failed subject
ProcessSubject_BreakOnFailure ==
    /\ main_pc = "running"
    /\ pc = "loop"
    /\ j <= Len(runList)
    /\ \E out \in process_subject(steps[k], fs, runList[j], kind, dry_run) :
          /\ fs' = out.fs
          /\ launched' = launched \cup out.ext
          /\ calls' = Append(calls, [k |-> k, step |-> steps[k], s |-> runList[j], ok |-> out.ok,
                                     ext |-> out.ext, wrote |-> out.wr])
          /\ success_count' = IF out.ok THEN success_count + 1 ELSE success_count
          /\ j' = IF out.ok THEN j + 1 ELSE Len(runList) + 1
    /\ UNCHANGED <<fs0, pc, subjects, steps, force, dry_run, kind, k, runList,
                   stageRes, started, overall_success, mainVars>>
    /\ UNCHANGED <<joinVars, buildVars, toolVars>>

\* one iteration of execute()'s loop over the subjects
ProcessSubject ==
    /\ main_pc = "running"
    /\ pc = "loop"
    /\ j <= Len(runList)
    /\ \E out \in process_subject(steps[k], fs, runList[j], kind, dry_run) :
          /\ fs' = out.fs
          /\ launched' = launched \cup out.ext
          /\ calls' = Append(calls, [k |-> k, step |-> steps[k], s |-> runList[j], ok |-> out.ok,
                                     ext |-> out.ext, wrote |-> out.wr])
          /\ success_count' = IF out.ok THEN success_count + 1 ELSE success_count
    /\ j' = j + 1
    /\ UNCHANGED <<fs0, pc, subjects, steps, force, dry_run, kind, k, runList,
                   stageRes, started, overall_success, mainVars>>
    /\ UNCHANGED <<joinVars, buildVars, toolVars>>

\* execute() returns after its loop
EndStage ==
    /\ main_pc = "running"
    /\ pc = "loop"
    /\ j > Len(runList)
    /\ StageReturns(StageVerdict(success_count, Len(runList)))
    /\ UNCHANGED <<fs, fs0, subjects, steps, force, dry_run, kind, runList, j,
                   success_count, started, calls, launched, mainVars>>
    /\ UNCHANGED <<joinVars, buildVars, toolVars>>

\* the variables of run_pipeline and of the stage runner
runVars == <<fs, fs0, pc, subjects, steps, force, dry_run, kind, k, runList, j,
             success_count, stageRes, started, overall_success, calls, launched>>

\* the process ends with the given code
Exits(outcome, code) ==
    /\ main_pc' = "exited"
    /\ main_outcome' = outcome
    /\ exit_code' = <<code>>

\* main, lines 243-247: constructing the pipeline raised (the configuration did not load)
MainInitFails ==
    /\ main_pc = "start"
    /\ Exits("init_failed", 1)
    /\ UNCHANGED runVars
    /\ UNCHANGED <<joinVars, buildVars, toolVars>>

\* main, lines 250-252: --info; show_info returns and main returns (the process
\* ends with code 0), or show_info raises and the interpreter ends with code 1
MainInfo(printed) ==
    /\ main_pc = "start"
    /\ IF printed THEN Exits("info_printed", 0) ELSE Exits("info_raised", 1)
    /\ UNCHANGED runVars
    /\ UNCHANGED <<joinVars, buildVars, toolVars>>

\* main, lines 255-262: --validate-only; validate_inputs returns True or False, or
\* raises and the interpreter ends with code 1
MainValidateOnly(outcome) ==
    /\ main_pc = "start"
    /\ Exits(outcome, IF outcome = "validate_valid" THEN 0 ELSE 1)
    /\ UNCHANGED runVars
    /\ UNCHANGED <<joinVars, buildVars, toolVars>>

\* main, lines 275-277: run_pipeline raised outside its loop over the steps
MainRunRaised ==
    /\ main_pc = "start"
    /\ Exits("run_raised", 1)
    /\ UNCHANGED runVars
    /\ UNCHANGED <<joinVars, buildVars, toolVars>>

\* main, lines 272-274: KeyboardInterrupt while run_pipeline runs; the process
\* ends where the run stands
MainInterrupted ==
    /\ main_pc = "running"
    /\ pc # "done"
    /\ Exits("interrupted", 1)
    /\ UNCHANGED runVars
    /\ UNCHANGED <<joinVars, buildVars, toolVars>>

\* mutant: the value run_pipeline returned is not looked at
ExitCodeOf_Ignored(success) == 0

\* main, line 270: 0 if success else 1
ExitCodeOf(success) == IF success THEN 0 ELSE 1

\* main, lines 264-270: run_pipeline returned overall_success
MainExit ==
    /\ main_pc = "running"
    /\ pc = "done"
    /\ Exits("run", ExitCodeOf(overall_success))
    /\ UNCHANGED runVars
    /\ UNCHANGED <<joinVars, buildVars, toolVars>>

Next ==
    \/ \E subs \in SubjectLists, sts \in StepLists, frc \in BOOLEAN, dry \in BOOLEAN,
          sk \in {"int", "str"} : StartRun(subs, sts, frc, dry, sk)
    \/ \E readable \in BOOLEAN : BeginStage(readable)
    \/ ProcessSubject
    \/ EndStage
    \/ MainInitFails
    \/ \E printed \in BOOLEAN : MainInfo(printed)
    \/ \E outcome \in {"validate_valid", "validate_invalid", "validate_raised"} :
          MainValidateOnly(outcome)
    \/ MainRunRaised
    \/ MainInterrupted
    \/ MainExit

Spec == Init /\ [][Next]_vars

\* One thread runs the steps one after the other and every call it makes returns:
\* a step of the run that can be taken is taken.
SpecLive ==
    /\ Spec
    /\ WF_vars(\E readable \in BOOLEAN : BeginStage(readable))
    /\ WF_vars(ProcessSubject)
    /\ WF_vars(EndStage)

-----------------------------------------------------------------------------
(* The annotation reader: CoordinateExtractionStep._extract_coordinates_from_xml. *)
(* A document is its Annotation elements in document order; an Annotation has a  *)
(* Name and Regions, a Region its V elements; a V carries the attributes X and Y. *)

MaxGroups == 3

\* Name attributes: the calibration layer, a name it is a prefix of, another case
GroupNames == {"Layer 1", "Layer 10", "layer 1"}

\* the number of V elements of each Region of an Annotation
GroupShapes == {<<>>, <<2>>, <<1, 1>>}

RECURSIVE Sum(_)
Sum(q) == IF q = <<>> THEN 0 ELSE Head(q) + Sum(Tail(q))

\* the V element at position id of the document: every vertex has its own X and Y
Vertex(id) == [X |-> id, Y |-> 0 - id]

\* the number of V elements before Annotation g
VerticesBefore(outline, g) == Sum([i \in 1 .. g - 1 |-> Sum(outline[i].shape)])

\* the document with the given names and shapes
Document(outline) ==
    [g \in 1 .. Len(outline) |->
        [Name |-> outline[g].Name,
         Regions |-> [r \in 1 .. Len(outline[g].shape) |->
                        [v \in 1 .. outline[g].shape[r] |->
                            Vertex(VerticesBefore(outline, g)
                                     + Sum(SubSeq(outline[g].shape, 1, r - 1)) + v)]]]]

Documents ==
    {Document(o) : o \in SeqsUpTo([Name : GroupNames, shape : GroupShapes], MaxGroups)}

RECURSIVE Flatten(_)
Flatten(qq) == IF qq = <<>> THEN <<>> ELSE Head(qq) \o Flatten(Tail(qq))

\* annotation.findall(".//V"): the V elements below the Annotation, in document order
FindAllV(annotation) == Flatten(annotation.Regions)

\* mutant: the name is compared without regard to case
SkipAnnotation_IgnoreCase(name) == name \in {"Layer 1", "layer 1"}

\* lines 296-297: the Annotation is skipped
SkipAnnotation(name) == name = "Layer 1"

InitXml ==
    /\ PipeIdle
    /\ JoinIdle
    /\ BuildIdle
    /\ AnchorIdle
    /\ ConfIdle
    /\ MeasIdle
    /\ xml_pc = "start"
    /\ annotation_doc \in Documents
    /\ xml_parses \in BOOLEAN
    /\ ann_i = 0
    /\ coordinates = <<>>

\* lines 286-290: the file is parsed; a parse error goes to the except clause,
\* which returns []
XmlParse ==
    /\ xml_pc = "start"
    /\ IF xml_parses
       THEN xml_pc' = "loop" /\ ann_i' = 1
       ELSE xml_pc' = "failed" /\ ann_i' = ann_i
    /\ coordinates' = <<>>
    /\ UNCHANGED <<annotation_doc, xml_parses>>
    /\ UNCHANGED <<pipeVars, joinVars, buildVars, anchorVars, confVars, measVars>>

\* lines 292-308: one iteration of the loop over the Annotation elements
XmlVisitAnnotation ==
    /\ xml_pc = "loop"
    /\ ann_i <= Len(annotation_doc)
    /\ LET annotation == annotation_doc[ann_i]
           name == annotation.Name
           V == FindAllV(annotation)
       IN coordinates' =
             IF SkipAnnotation(name) THEN coordinates
             ELSE coordinates \o [n \in 1 .. Len(V) |-> [Name |-> name, X |-> V[n].X, Y |-> V[n].Y]]
    /\ ann_i' = ann_i + 1
    /\ UNCHANGED <<xml_pc, annotation_doc, xml_parses>>
    /\ UNCHANGED <<pipeVars, joinVars, buildVars, anchorVars, confVars, measVars>>

\* lines 310-311: the list is returned
XmlReturn ==
    /\ xml_pc = "loop"
    /\ ann_i > Len(annotation_doc)
    /\ xml_pc' = "done"
    /\ UNCHANGED <<annotation_doc, xml_parses, ann_i, coordinates>>
    /\ UNCHANGED <<pipeVars, joinVars, buildVars, anchorVars, confVars, measVars>>

NextXml ==
    \/ XmlParse
    \/ XmlVisitAnnotation
    \/ XmlReturn

SpecXml == InitXml /\ [][NextXml]_vars

-----------------------------------------------------------------------------
(* The anchor resolver: CoordinateTransformationStep._load_manual_coordinates.  *)
(* A line of the sidecar file is a sequence of tokens: a run of digits, or one  *)
(* of the characters " ", "#", "=", ",".                                        *)

MaxLines == 3

Numerals == {"1", "2", "3", "6966", "7038"}

\* int(token) for a run of digits
NumeralValue(tok) ==
    CASE tok = "1" -> 1
      [] tok = "2" -> 2
      [] tok = "3" -> 3
      [] tok = "6966" -> SubjectA
      [] tok = "7038" -> SubjectB

\* str(subject_id)
StrOfSubject(s) == IF s = SubjectA THEN "6966" ELSE "7038"

\* entries of both subjects (one with blanks around the key), a second entry of
\* the first subject with another anchor, a commented-out entry, a blank line,
\* an entry with two values, an entry with four values and a line without "="
SidecarLines ==
    { <<"6966", "=", "1", ",", "2", ",", "3">>,
      <<"6966", "=", "3", ",", "2", ",", "1">>,
      <<" ", "6966", " ", "=", " ", "2", ",", " ", "1", ",", "3", " ">>,
      <<"7038", "=", "2", ",", "2", ",", "2">>,
      <<"#", "6966", "=", "3", ",", "3", ",", "3">>,
      <<" ">>,
      <<"6966", "=", "1", ",", "2">>,
      <<"7038", "=", "1", ",", "2", ",", "3", ",", "1">>,
      <<"6966", ",", "1">> }

RECURSIVE LStrip(_)
LStrip(q) == IF q # <<>> /\ Head(q) = " " THEN LStrip(Tail(q)) ELSE q

RECURSIVE RStrip(_)
RStrip(q) == IF q # <<>> /\ q[Len(q)] = " " THEN RStrip(SubSeq(q, 1, Len(q) - 1)) ELSE q

\* str.strip()
Strip(q) == RStrip(LStrip(q))

\* c in q
Contains(q, c) == \E i \in 1 .. Len(q) : q[i] = c

\* the position of the first c in q
IndexOf(q, c) == CHOOSE i \in 1 .. Len(q) : q[i] = c /\ \A h \in 1 .. i - 1 : q[h] # c

\* q.split(c, 1), for q that contains c
SplitFirst(q, c) == << SubSeq(q, 1, IndexOf(q, c) - 1), SubSeq(q, IndexOf(q, c) + 1, Len(q)) >>

\* q.split(c)
RECURSIVE Split(_, _)
Split(q, c) ==
    IF Contains(q, c)
    THEN <<SplitFirst(q, c)[1]>> \o Split(SplitFirst(q, c)[2], c)
    ELSE <<q>>

\* int(piece) raises: after stripping, the piece is not one run of digits
IntOfRaises(piece) == Len(Strip(piece)) # 1 \/ Strip(piece)[1] \notin Numerals

\* int(piece)
IntOf(piece) == NumeralValue(Strip(piece)[1])

\* line 483 raises: x, y, z = map(int, coords.strip().split(','))
CoordsRaise(coords) ==
    LET pieces == Split(Strip(coords), ",")
    IN Len(pieces) # 3 \/ \E n \in 1 .. Len(pieces) : IntOfRaises(pieces[n])

\* line 483: (x, y, z)
CoordsOf(coords) ==
    LET pieces == Split(Strip(coords), ",")
    IN << IntOf(pieces[1]), IntOf(pieces[2]), IntOf(pieces[3]) >>

\* lines 476-482: the stripped line is an entry of subject s
IsEntryOf(line, s) ==
    /\ line # <<>>
    /\ Head(line) # "#"
    /\ Contains(line, "=")
    /\ Strip(SplitFirst(line, "=")[1]) = <<StrOfSubject(s)>>

\* line 490: the error line of the except clause, which carries the exception
LoadFailed == "Failed to load manual coordinates"

\* line 446: the error line of _process_subject for a resolver that returned None
NotFoundLogged == "Manual coordinates not found"

InitAnchor ==
    /\ PipeIdle
    /\ JoinIdle
    /\ BuildIdle
    /\ XmlIdle
    /\ ConfIdle
    /\ MeasIdle
    /\ anchor_pc = "start"
    /\ coords_file \in SeqsUpTo(SidecarLines, MaxLines)
    /\ coords_opens \in BOOLEAN
    /\ anchor_subject \in Subjects
    /\ line_i = 0
    /\ anchor_ret = <<>>
    /\ anchor_log = <<>>

\* line 473: the file is opened; a failure goes to the except clause, which
\* returns None
AnchorOpen ==
    /\ anchor_pc = "start"
    /\ IF coords_opens
       THEN anchor_pc' = "loop" /\ line_i' = 1 /\ anchor_log' = anchor_log
       ELSE anchor_pc' = "done" /\ line_i' = line_i /\ anchor_log' = Append(anchor_log, LoadFailed)
    /\ anchor_ret' = <<>>
    /\ UNCHANGED <<coords_file, coords_opens, anchor_subject>>
    /\ UNCHANGED <<pipeVars, joinVars, buildVars, xmlVars, confVars, measVars>>

\* mutant: an entry of the subject does not end the loop, a later one replaces it
AnchorReadLine_LastMatch ==
    /\ anchor_pc = "loop"
    /\ line_i <= Len(coords_file)
    /\ LET line == Strip(coords_file[line_i])
       IN IF IsEntryOf(line, anchor_subject)
          THEN IF CoordsRaise(SplitFirst(line, "=")[2])
               THEN /\ anchor_ret' = <<>> /\ anchor_pc' = "done" /\ line_i' = line_i
                    /\ anchor_log' = Append(anchor_log, LoadFailed)
               ELSE /\ anchor_ret' = <<CoordsOf(SplitFirst(line, "=")[2])>>
                    /\ anchor_pc' = anchor_pc
                    /\ line_i' = line_i + 1
                    /\ anchor_log' = anchor_log
          ELSE /\ anchor_ret' = anchor_ret /\ anchor_pc' = anchor_pc /\ line_i' = line_i + 1
               /\ anchor_log' = anchor_log
    /\ UNCHANGED <<coords_file, coords_opens, anchor_subject>>
    /\ UNCHANGED <<pipeVars, joinVars, buildVars, xmlVars, confVars, measVars>>

\* lines 474-485: one iteration of the loop over the lines.  An entry of the
\* subject ends the loop: it returns the anchor, or raises into the except
\* clause, which returns None.
AnchorReadLine ==
    /\ anchor_pc = "loop"
    /\ line_i <= Len(coords_file)
    /\ LET line == Strip(coords_file[line_i])
       IN IF IsEntryOf(line, anchor_subject)
          THEN /\ anchor_ret' = IF CoordsRaise(SplitFirst(line, "=")[2])
                            THEN <<>>
                            ELSE <<CoordsOf(SplitFirst(line, "=")[2])>>
               /\ anchor_log' = IF CoordsRaise(SplitFirst(line, "=")[2])
                            THEN Append(anchor_log, LoadFailed)
                            ELSE anchor_log
               /\ anchor_pc' = "done"
               /\ line_i' = line_i
          ELSE /\ anchor_ret' = anchor_ret /\ anchor_pc' = anchor_pc /\ line_i' = line_i + 1
               /\ anchor_log' = anchor_log
    /\ UNCHANGED <<coords_file, coords_opens, anchor_subject>>
    /\ UNCHANGED <<pipeVars, joinVars, buildVars, xmlVars, confVars, measVars>>

\* line 487: no entry of the subject, None is returned
AnchorNotFound ==
    /\ anchor_pc = "loop"
    /\ line_i > Len(coords_file)
    /\ anchor_pc' = "done"
    /\ anchor_ret' = <<>>
    /\ UNCHANGED <<coords_file, coords_opens, anchor_subject, line_i, anchor_log>>
    /\ UNCHANGED <<pipeVars, joinVars, buildVars, xmlVars, confVars, measVars>>

\* mutant: a resolver that returned None lets the procedure go on to the build
TransformOnAnchor_NoCheck ==
    /\ anchor_pc = "done"
    /\ anchor_pc' = "building"
    /\ UNCHANGED <<coords_file, coords_opens, anchor_subject, line_i, anchor_ret, anchor_log>>
    /\ UNCHANGED <<pipeVars, joinVars, buildVars, xmlVars, confVars, measVars>>

\* CoordinateTransformationStep._process_subject, lines 444-452: on None the
\* subject is failed before the output directory is made and the build is called
TransformOnAnchor ==
    /\ anchor_pc = "done"
    /\ IF anchor_ret = <<>>
       THEN anchor_pc' = "subject_failed" /\ anchor_log' = Append(anchor_log, NotFoundLogged)
       ELSE anchor_pc' = "building" /\ anchor_log' = anchor_log
    /\ UNCHANGED <<coords_file, coords_opens, anchor_subject, line_i, anchor_ret>>
    /\ UNCHANGED <<pipeVars, joinVars, buildVars, xmlVars, confVars, measVars>>

NextAnchor ==
    \/ AnchorOpen
    \/ AnchorReadLine
    \/ AnchorNotFound
    \/ TransformOnAnchor

SpecAnchor == InitAnchor /\ [][NextAnchor]_vars

-----------------------------------------------------------------------------
(* The configuration store: PipelineConfig._load_config and PipelineConfig.get. *)
(* A line is a sequence of tokens: a word, a run of digits, or one of the       *)
(* characters " ", "#", "=", ",", ".".  A loaded value is a record by type.     *)

MaxConfLines == 2

\* key texts: two recognized keys and a key with a "."
ConfKeys == { <<"block_size">>, <<"subject_list">>, <<"pipeline", ".", "name">> }

\* value tokens: a boolean, an integer, a float, digits with two points, a comma
\* list and a word
ConfTokens ==
    { <<"True">>,
      <<"6966">>,
      <<"1", ".", "2">>,
      <<"1", ".", "2", ".", "3">>,
      <<"6966", ",", " ", "7038">>,
      <<"abc">> }

\* the lines "key = value", a comment, a blank line and a line without "="
ConfLines ==
    {key \o <<" ", "=", " ">> \o value : key \in ConfKeys, value \in ConfTokens}
        \cup { <<"#", " ", "block_size", "=", "3">>, <<" ">>, <<"block_size", " ", "3">> }

\* str.lower() of a word
Lower(tok) ==
    CASE tok = "True" -> "true"
      [] tok = "False" -> "false"
      [] OTHER -> tok

\* line 42: value.lower() in ['true', 'false']
IsBoolToken(value) == Len(value) = 1 /\ Lower(value[1]) \in {"true", "false"}

\* value.replace('.', '')
WithoutPoints(value) == SelectSeq(value, LAMBDA c : c # ".")

\* str.isdigit(): not empty, digits only
IsDigit(q) == q # <<>> /\ \A i \in 1 .. Len(q) : q[i] \in Numerals

\* line 44: value.replace('.', '').isdigit()
IsNumericToken(value) == IsDigit(WithoutPoints(value))

\* float(value) raises ValueError: more than one point among the digits
FloatRaises(value) == Len(value) - Len(WithoutPoints(value)) > 1

\* float(value), for digits with one point: the digits before and after it
FloatOf(value) ==
    LET parts == SplitFirst(value, ".")
    IN [kind |-> "float",
        whole |-> IF parts[1] = <<>> THEN 0 ELSE NumeralValue(parts[1][1]),
        frac |-> parts[2]]

\* lines 42-47 raise for the value
CoerceRaises(value) ==
    /\ ~IsBoolToken(value)
    /\ IsNumericToken(value)
    /\ Contains(value, ".")
    /\ FloatRaises(value)

\* lines 42-47: the value stored for the token
Coerce(value) ==
    IF IsBoolToken(value)
    THEN [kind |-> "bool", b |-> (Lower(value[1]) = "true")]
    ELSE IF IsNumericToken(value)
    THEN IF Contains(value, ".")
         THEN FloatOf(value)
         ELSE [kind |-> "int", n |-> NumeralValue(value[1])]
    ELSE IF Contains(value, ",")
    THEN [kind |-> "list",
          items |-> [i \in 1 .. Len(Split(value, ",")) |-> Strip(Split(value, ",")[i])]]
    ELSE [kind |-> "str", text |-> value]

\* config[key] = value
DictSet(dict, key, value) ==
    [c \in DOMAIN dict \cup {key} |-> IF c = key THEN value ELSE dict[c]]

\* lines 64-69: the loop of get() over the keys; is_dict is isinstance(value, dict)
RECURSIVE GetLoop(_, _, _, _)
GetLoop(value, is_dict, keys, default) ==
    IF keys = <<>> THEN value
    ELSE IF is_dict /\ Head(keys) \in DOMAIN value
    THEN GetLoop(value[Head(keys)], FALSE, Tail(keys), default)
    ELSE default

\* PipelineConfig.get: no loaded value is a dict
get(dict, key_path, default) == GetLoop(dict, TRUE, Split(key_path, "."), default)

InitConf ==
    /\ PipeIdle
    /\ JoinIdle
    /\ BuildIdle
    /\ XmlIdle
    /\ AnchorIdle
    /\ MeasIdle
    /\ conf_pc = "start"
    /\ conf_file \in SeqsUpTo(ConfLines, MaxConfLines)
    /\ conf_opens \in BOOLEAN
    /\ conf_i = 0
    /\ config = EmptyDict
    /\ get_key = <<>>
    /\ get_ret = PyNone

\* lines 29-30: the file is opened; a failure is raised as RuntimeError (line 53)
ConfOpen ==
    /\ conf_pc = "start"
    /\ IF conf_opens
       THEN conf_pc' = "loop" /\ conf_i' = 1
       ELSE conf_pc' = "raised" /\ conf_i' = conf_i
    /\ UNCHANGED <<conf_file, conf_opens, config, get_key, get_ret>>
    /\ UNCHANGED <<pipeVars, joinVars, buildVars, xmlVars, anchorVars, measVars>>

\* lines 31-50: one iteration of the loop over the lines
ConfReadLine ==
    /\ conf_pc = "loop"
    /\ conf_i <= Len(conf_file)
    /\ LET line == Strip(conf_file[conf_i])
       IN IF line = <<>> \/ Head(line) = "#"
          THEN UNCHANGED <<config, conf_pc>> /\ conf_i' = conf_i + 1
          ELSE IF Contains(line, "=")
          THEN LET key == Strip(SplitFirst(line, "=")[1])
                   value == Strip(SplitFirst(line, "=")[2])
               IN IF CoerceRaises(value)
                  THEN conf_pc' = "raised" /\ config' = EmptyDict /\ conf_i' = conf_i
                  ELSE /\ config' = DictSet(config, key, Coerce(value))
                       /\ conf_i' = conf_i + 1
                       /\ UNCHANGED conf_pc
          ELSE UNCHANGED <<config, conf_pc>> /\ conf_i' = conf_i + 1
    /\ UNCHANGED <<conf_file, conf_opens, get_key, get_ret>>
    /\ UNCHANGED <<pipeVars, joinVars, buildVars, xmlVars, anchorVars, measVars>>

\* line 51: return config
ConfLoaded ==
    /\ conf_pc = "loop"
    /\ conf_i > Len(conf_file)
    /\ conf_pc' = "loaded"
    /\ UNCHANGED <<conf_file, conf_opens, conf_i, config, get_key, get_ret>>
    /\ UNCHANGED <<pipeVars, joinVars, buildVars, xmlVars, anchorVars, measVars>>

\* PipelineConfig.get(key_path), default None
ConfGet(key_path) ==
    /\ conf_pc = "loaded"
    /\ get_key' = key_path
    /\ get_ret' = get(config, key_path, PyNone)
    /\ conf_pc' = "got"
    /\ UNCHANGED <<conf_file, conf_opens, conf_i, config>>
    /\ UNCHANGED <<pipeVars, joinVars, buildVars, xmlVars, anchorVars, measVars>>

\* []
EmptyList == [kind |-> "list", items |-> <<>>]

\* the argument subjects of get_subjects: None, or the list of --subjects
SubjectArgs ==
    {PyNone} \cup {[kind |-> "list", items |-> [i \in 1 .. Len(q) |-> [kind |-> "int", n |-> q[i]]]] :
                      q \in SubjectLists}

\* line 86 raises: int(s.strip()) of a piece of the string that is not a run of digits
GetSubjectsRaises(dict, subjects_arg) ==
    LET subject_list == get(dict, <<"subject_list">>, EmptyList)
    IN /\ subjects_arg = PyNone
       /\ subject_list.kind = "str"
       /\ \E n \in 1 .. Len(Split(subject_list.text, ",")) :
             IntOfRaises(Split(subject_list.text, ",")[n])

\* PipelineConfig.get_subjects, lines 82-87
get_subjects(dict, subjects_arg) ==
    LET subject_list == get(dict, <<"subject_list">>, EmptyList)
    IN IF subjects_arg # PyNone THEN subjects_arg
       ELSE IF subject_list.kind = "str"
       THEN [kind |-> "list",
             items |-> [i \in 1 .. Len(Split(subject_list.text, ",")) |->
                          [kind |-> "int", n |-> IntOf(Split(subject_list.text, ",")[i])]]]
       ELSE subject_list

\* PipelineConfig.get_subjects(subjects_arg)
ConfGetSubjects(subjects_arg) ==
    /\ conf_pc = "loaded"
    /\ get_key' = IF subjects_arg = PyNone THEN <<"subject_list">> ELSE <<>>
    /\ IF GetSubjectsRaises(config, subjects_arg)
       THEN conf_pc' = "subjects_raised" /\ get_ret' = PyNone
       ELSE conf_pc' = "subjects" /\ get_ret' = get_subjects(config, subjects_arg)
    /\ UNCHANGED <<conf_file, conf_opens, conf_i, config>>
    /\ UNCHANGED <<pipeVars, joinVars, buildVars, xmlVars, anchorVars, measVars>>

NextConf ==
    \/ ConfOpen
    \/ ConfReadLine
    \/ ConfLoaded
    \/ \E key_path \in ConfKeys \cup {<<"mni_template_path">>, <<"pipeline">>} : ConfGet(key_path)
    \/ \E subjects_arg \in SubjectArgs : ConfGetSubjects(subjects_arg)

SpecConf == InitConf /\ [][NextConf]_vars

-----------------------------------------------------------------------------
(* The measurement reader: CoordinateExtractionStep._extract_at8_values_from_csv. *)
(* A row of the summary table has an Image Tag (a sequence of characters, or      *)
(* None for an empty cell), an Analysis Region (a sequence of words, or None)     *)
(* and a percentage.                                                             *)

MaxSummaryRows == 2

\* str(subject_id) of two subjects, one identifier being the tail of the other
MeasSubjects == { <<"6", "6">>, <<"9", "6", "6">> }

\* Image Tag cells: a slide of each subject, and an empty cell
ImageTags ==
    { Some(<<"6", "6", "-", "A", "1">>), Some(<<"9", "6", "6", "-", "A", "1">>), None }

\* Analysis Region cells: two tiles, the calibration layer, and an empty cell
AnalysisRegions ==
    { Some(<<"Tile", " ", "1">>), Some(<<"Tile", " ", "2">>), Some(<<"Layer", " ", "1">>), None }

\* "% AT8 Positive Tissue" cells, whole numbers standing for the floats
Percentages == {5, 9}

SummaryRows == [tag : ImageTags, region : AnalysisRegions, value : Percentages]

\* pat in q, for strings as sequences of characters
HasSubstring(q, pat) ==
    \E i \in 0 .. Len(q) - Len(pat) : SubSeq(q, i + 1, i + Len(pat)) = pat

\* line 324: f"{subject_id}-"
SubjectPattern(subject_chars) == subject_chars \o <<"-">>

\* line 325: df['Image Tag'].str.contains(subject_pattern, na=False) for one row
RowSelected(row, subject_chars) ==
    row.tag # None /\ HasSubstring(row.tag[1], SubjectPattern(subject_chars))

\* line 334 raises: analysis_region is NaN, which has no startswith
RegionRaises(row) == row.region = None

\* line 334: analysis_region.startswith('Tile')
IsTileRegion(row) == Head(row.region[1]) = "Tile"

InitMeas ==
    /\ PipeIdle
    /\ JoinIdle
    /\ BuildIdle
    /\ XmlIdle
    /\ AnchorIdle
    /\ ConfIdle
    /\ meas_pc = "start"
    /\ summary_df \in SeqsUpTo(SummaryRows, MaxSummaryRows)
    /\ meas_subject \in MeasSubjects
    /\ meas_i = 0
    /\ at8_values = <<>>

\* lines 319-327: the table is read; a failure goes to the except clause, which
\* returns []
MeasRead(readable) ==
    /\ meas_pc = "start"
    /\ IF readable
       THEN meas_pc' = "loop" /\ meas_i' = 1
       ELSE meas_pc' = "failed" /\ meas_i' = meas_i
    /\ at8_values' = <<>>
    /\ UNCHANGED <<summary_df, meas_subject>>
    /\ UNCHANGED <<pipeVars, joinVars, buildVars, xmlVars, anchorVars, confVars>>

\* lines 325-338: the next row of the table; a row that is not selected is not
\* iterated over, a selected row naming a tile is appended
MeasVisitRow ==
    /\ meas_pc = "loop"
    /\ meas_i <= Len(summary_df)
    /\ LET row == summary_df[meas_i]
       IN IF ~RowSelected(row, meas_subject)
          THEN UNCHANGED <<meas_pc, at8_values>> /\ meas_i' = meas_i + 1
          ELSE IF RegionRaises(row)
          THEN meas_pc' = "failed" /\ at8_values' = <<>> /\ meas_i' = meas_i
          ELSE /\ at8_values' =
                     IF IsTileRegion(row)
                     THEN Append(at8_values, [Tile |-> row.region[1], AT8_Value |-> row.value])
                     ELSE at8_values
               /\ meas_i' = meas_i + 1
               /\ UNCHANGED meas_pc
    /\ UNCHANGED <<summary_df, meas_subject>>
    /\ UNCHANGED <<pipeVars, joinVars, buildVars, xmlVars, anchorVars, confVars>>

\* lines 340-341: the list is returned
MeasReturn ==
    /\ meas_pc = "loop"
    /\ meas_i > Len(summary_df)
    /\ meas_pc' = "done"
    /\ UNCHANGED <<summary_df, meas_subject, meas_i, at8_values>>
    /\ UNCHANGED <<pipeVars, joinVars, buildVars, xmlVars, anchorVars, confVars>>

NextMeas ==
    \/ \E readable \in BOOLEAN : MeasRead(readable)
    \/ MeasVisitRow
    \/ MeasReturn

SpecMeas == InitMeas /\ [][NextMeas]_vars

-----------------------------------------------------------------------------
(* Properties of the orchestrator and the stage runner (specification Spec) *)

\* the subjects _process_subject was invoked on by the stage at position i, in order
RECURSIVE SubjectsCalled(_, _)
SubjectsCalled(cs, i) ==
    IF cs = <<>> THEN <<>>
    ELSE IF Head(cs).k = i THEN <<Head(cs).s>> \o SubjectsCalled(Tail(cs), i)
    ELSE SubjectsCalled(Tail(cs), i)

CallsAt(i) == {n \in 1 .. Len(calls) : calls[n].k = i}

\* C1: when the stage at position i fails (a subject failed, or execute raised), no
\* stage after i has its execute or a per-subject procedure invoked, and the run
\* ends in failure; a stage is started only after the one before it succeeded.
C1_HaltOnStageFailure ==
    /\ \A i \in 1 .. Len(stageRes) :
          stageRes[i] # "success" =>
             /\ \A n \in 1 .. Len(started) : started[n] <= i
             /\ \A n \in 1 .. Len(calls) : calls[n].k <= i
             /\ pc = "done"
             /\ ~overall_success
    /\ \A n \in 1 .. Len(started) :
          started[n] > 1 =>
             /\ started[n] - 1 <= Len(stageRes)
             /\ stageRes[started[n] - 1] = "success"

\* C1 witness: the first of several stages failed on a subject and the run is over
C1_Witness ==
    /\ pc = "done"
    /\ Len(steps) >= 2
    /\ Len(stageRes) = 1
    /\ stageRes[1] = "failure"
    /\ \E n \in 1 .. Len(calls) : ~calls[n].ok

\* C2 (as claimed): a stage run with force = false whose subjects all have a
\* non-empty output directory invokes no per-subject procedure, launches nothing,
\* writes nothing and returns success (a raise of the directory listing aside).
C2_IdempotentResume ==
    [][ ( /\ pc = "begin"
          /\ ~force
          /\ \A s \in SeqToSet(subjects) : LedgerExists(fs, s, get_step_suffix(steps[k]))
          /\ started' # started )
        => ( /\ pc' # "loop"
             /\ calls' = calls
             /\ fs' = fs
             /\ stageRes'[Len(stageRes')] \in {"success", "raised"} ) ]_vars

\* C3: with force = true the subjects handed to the per-subject procedure are the
\* input list, same elements and order, whatever the output directories hold.
C3_ForceRunsAll ==
    force =>
       /\ pc = "loop" => runList = subjects
       /\ \A i \in 1 .. Len(stageRes) : SubjectsCalled(calls, i) = subjects

\* C3 witness: a forced stage of the base runner has returned although every
\* subject's output directory held an entry when the run began
C3_Witness ==
    /\ force
    /\ Len(stageRes) >= 1
    /\ steps[1] # "mni"
    /\ Len(subjects) = 2
    /\ \A s \in SeqToSet(subjects) : LedgerExists(fs0, s, get_step_suffix(steps[1]))
    /\ SubjectsCalled(calls, 1) = subjects

\* C4: within a stage the per-subject procedure is invoked once per subject that
\* survived pruning, in list order, also for the subjects after a failed one.
C4_AllSubjectsAttempted ==
    /\ pc = "loop" => SubjectsCalled(calls, k) = SubSeq(runList, 1, j - 1)
    /\ (pc \in {"begin", "done"} /\ Len(stageRes) >= 1) =>
          SubjectsCalled(calls, Len(stageRes)) = runList

\* C4 witness: a stage returned, its first subject had failed, its second was attempted
C4_Witness ==
    /\ pc = "done"
    /\ Len(runList) = 2
    /\ \E n \in 1 .. Len(calls) :
          /\ n < Len(calls)
          /\ calls[n].k = Len(stageRes) /\ calls[n + 1].k = Len(stageRes)
          /\ ~calls[n].ok

\* C5: a stage returns success iff every subject its per-subject procedure was
\* invoked on returned success; pruned subjects do not count.
C5_StageVerdict ==
    \A i \in 1 .. Len(stageRes) :
       stageRes[i] # "raised" =>
          (stageRes[i] = "success" <=> \A n \in CallsAt(i) : calls[n].ok)

\* C5 witness: a stage succeeded on the one subject it attempted, the other of the
\* two subjects having been pruned by the ledger
C5_Witness ==
    /\ Len(subjects) = 2
    /\ \E i \in 1 .. Len(stageRes) :
          /\ stageRes[i] = "success"
          /\ Cardinality(CallsAt(i)) = 1
          /\ \A n \in CallsAt(i) : calls[n].ok

\* C6: in a dry run no file of any stage output directory is created, moved or
\* deleted and no external process is launched.
C6_DryRunNoFilesNoProcesses ==
    (dry_run /\ pc # "idle") => (Files(fs) = Files(fs0) /\ launched = {})

\* C6 witness: a dry run went through the slice stage for a subject whose
\* upsampled volume exists (the stage would have launched Rscript)
C6_Witness ==
    /\ dry_run
    /\ pc = "done"
    /\ \E n \in 1 .. Len(calls) : calls[n].step = "slice" /\ UpFile(calls[n].s) \in fs

\* C7 (as claimed): in a dry run every per-subject procedure reports success,
\* for integer subjects as for configured ones, so the run succeeds overall.
C7_DryRunAlwaysSucceeds ==
    dry_run =>
       /\ \A n \in 1 .. Len(calls) : calls[n].ok
       /\ (pc = "done" /\ \A i \in 1 .. Len(stageRes) : stageRes[i] # "raised")
             => overall_success

-----------------------------------------------------------------------------
(* Properties of the joiner (specification SpecJoin) *)

Min(a, b) == IF a <= b THEN a ELSE b

\* ceil(c / 5)
CeilDiv5(c) == (c + 4) \div 5

\* the coordinates the join reads all have an X and a Y
WellFormedTiles == \A r \in 1 .. Len(df_tiles) : df_tiles[r][2] # None /\ df_tiles[r][3] # None

\* the record the spec derives from a coordinate and a value
TileRecord(coord, value) ==
    << coord[1], Some(coord[2][1] \div 1000), Some(coord[3][1] \div 1000), value >>

\* C8 (as claimed): for m >= 1 measurements and c coordinates the joiner emits
\* min(m, ceil(c/5)) records, record i built from coords[5*i] and measurements[i],
\* and no record for an i with 5*i >= c.
C8_JoinCorrespondence ==
    (join_pc = "done" /\ Len(df_at8) >= 1 /\ WellFormedTiles) =>
       LET n == Min(Len(df_at8), CeilDiv5(Len(df_tiles)))
       IN /\ Len(proc.rows) = n
          /\ \A i \in 0 .. n - 1 :
                proc.rows[i + 1] = TileRecord(df_tiles[5 * i + 1], df_at8[i + 1][2])

\* C9 (as claimed): with no measurement the joiner emits one record {Tile, X, Z,
\* Value} per coordinate, in order, with Value 0 and X, Z the coordinate's X, Y
\* floor-divided by 1000.
C9_EmptyMeasurementFallback ==
    (join_pc = "done" /\ Len(df_at8) = 0 /\ Len(df_tiles) >= 1 /\ WellFormedTiles) =>
       /\ proc.cols = <<"Tile", "X", "Z", "AT8">>
       /\ Len(proc.rows) = Len(df_tiles)
       /\ \A r \in 1 .. Len(df_tiles) : proc.rows[r] = TileRecord(df_tiles[r], Some(0))

-----------------------------------------------------------------------------
(* Properties of the volume block builder (specification SpecBuild) *)

\* outside [0, dim) on at least one axis
OutsideVolume(p) ==
    \/ p[1] < 0 \/ p[1] >= DimX
    \/ p[2] < 0 \/ p[2] >= DimY
    \/ p[3] < 0 \/ p[3] >= DimZ

\* C10: a record whose absolute coordinate lies outside the volume on some axis
\* writes no voxel and raises nothing: the build goes on to the next record, and
\* fails only where the reference does not load, a record cannot be read, the
\* block of a record inside the volume cannot be looped over or a write of the
\* results fails.
C10_BoundsSafeStamping ==
    /\ \A r \in 1 .. Len(written) :
          OutsideVolume(AbsCoord(df, r, manual_coords)) => written[r] = {}
    /\ \A r \in 1 .. Len(df.rows) :
          (build_pc = "failed" /\ row_i = r) =>
             (RecordRaises(df, r) \/ (block_size_kind # "int" /\ ~OutsideVolume(AbsCoord(df, r, manual_coords))))
    /\ (build_pc = "done") => (row_i = Len(df.rows) + 1 /\ Len(written) = Len(df.rows))

\* C10 witness: the build succeeded over two records, the first outside the
\* volume, the second inside and stamped
C10_Witness ==
    /\ build_pc = "done"
    /\ Len(written) = 2
    /\ OutsideVolume(AbsCoord(df, 1, manual_coords))
    /\ written[1] = {}
    /\ written[2] # {}

\* the records processed so far whose block covers voxel v
Covering(v) == {r \in 1 .. Len(written) : v \in written[r]}

Max(S) == CHOOSE m \in S : \A n \in S : n <= m

\* C11: a voxel covered by the blocks of several in-bounds records holds the AT8
\* value of the covering record that is latest in iteration order (no sum, no
\* average, not the earlier value); a voxel no block covers holds 0.
C11_LastWriteWins ==
    \A v \in Voxels :
       IF Covering(v) = {}
       THEN mask[v] = 0
       ELSE mask[v] = Cell(df, Max(Covering(v)), "AT8")[1]

\* C11 witness: the build succeeded over two in-bounds records of different value
\* whose blocks share a voxel, the first block also holding a voxel of its own
C11_Witness ==
    /\ build_pc = "done"
    /\ Len(written) = 2
    /\ written[1] \cap written[2] # {}
    /\ written[1] \ written[2] # {}
    /\ Cell(df, 1, "AT8") # Cell(df, 2, "AT8")

\* the span of a cube of side bs centred at coordinate c of one axis: centred for
\* odd bs, shifted one voxel toward the negative side for even bs
ClaimedSpan(c, bs) ==
    IF bs % 2 = 1
    THEN (c - bs \div 2) .. (c + bs \div 2)
    ELSE (c - bs \div 2) .. (c + bs \div 2 - 1)

\* the cube of side bs around p, clipped to the volume
ClaimedCube(p, bs) ==
    {v \in Voxels : \A a \in 1 .. 3 : v[a] \in ClaimedSpan(p[a], bs)}

\* C12 (as claimed): the voxels an in-bounds record stamps are the cube of side
\* exactly block_size around its coordinate, clipped to the volume: the span
\* [p - bs//2, p + bs//2] for odd bs and [p - bs//2, p + bs//2 - 1] for even bs.
C12_CubeGeometry ==
    \A r \in 1 .. Len(written) :
       ~OutsideVolume(AbsCoord(df, r, manual_coords)) =>
          written[r] = ClaimedCube(AbsCoord(df, r, manual_coords), block_size)

-----------------------------------------------------------------------------
(* Properties of the annotation reader (specification SpecXml) *)

\* the V elements that belong to the Annotation at position g
GroupVertices(g) ==
    UNION {SeqToSet(annotation_doc[g].Regions[r]) : r \in 1 .. Len(annotation_doc[g].Regions)}

\* the positions of the extracted list that hold vertex v
Hits(v) == {n \in 1 .. Len(coordinates) : coordinates[n].X = v.X /\ coordinates[n].Y = v.Y}

-----------------------------------------------------------------------------
(* Properties of the anchor resolver (specification SpecAnchor) *)

\* the text of line i before its first "=", blanks at both ends aside
KeyText(i) ==
    IF Contains(coords_file[i], "=") THEN Strip(SplitFirst(coords_file[i], "=")[1]) ELSE <<>>

\* line i is not blank, is not a "#" line and its text before "=" is the subject
EntryLines ==
    {i \in 1 .. Len(coords_file) :
        /\ Strip(coords_file[i]) # <<>>
        /\ Head(Strip(coords_file[i])) # "#"
        /\ KeyText(i) = <<StrOfSubject(anchor_subject)>>}

\* what line i alone says: the three integers after "=", None where they do not parse
AnchorOfLine(i) ==
    LET coords == SplitFirst(coords_file[i], "=")[2]
    IN IF CoordsRaise(coords) THEN <<>> ELSE <<CoordsOf(coords)>>

\* the first of them in file order
FirstEntry == CHOOSE i \in EntryLines : \A h \in EntryLines : i <= h

\* C14: the anchor returned is decided by the first line, in file order and
\* blank and "#" lines aside, whose text before "=" is the subject identifier: it
\* is what that line alone says, whatever later entries of the subject and the
\* lines of other subjects hold; without such a line the result is None.
C14_AnchorFirstMatch ==
    (anchor_pc = "done" /\ coords_opens) =>
       IF EntryLines = {}
       THEN anchor_ret = <<>>
       ELSE /\ anchor_ret = AnchorOfLine(FirstEntry)
            /\ line_i = FirstEntry

\* C14 witness: after an entry of the other subject, two entries of the subject
\* with different anchors; the first of the two was returned
C14_Witness ==
    /\ anchor_pc = "done"
    /\ Len(coords_file) = 3
    /\ EntryLines = {2, 3}
    /\ AnchorOfLine(2) # <<>>
    /\ AnchorOfLine(3) # <<>>
    /\ AnchorOfLine(2) # AnchorOfLine(3)
    /\ anchor_ret = AnchorOfLine(2)

-----------------------------------------------------------------------------
(* Properties of the configuration store (specification SpecConf) *)

\* line i of the file is a key=value line
IsKeyValueLine(i) ==
    LET line == Strip(conf_file[i])
    IN line # <<>> /\ Head(line) # "#" /\ Contains(line, "=")

\* the key text and the value token of key=value line i
KeyOfLine(i) == Strip(SplitFirst(Strip(conf_file[i]), "=")[1])
TokenOfLine(i) == Strip(SplitFirst(Strip(conf_file[i]), "=")[2])

\* C15 (as claimed): loading a configuration file that opens never fails on the
\* content of a value token: every key=value line read has a value stored under
\* its key by the first matching rule, tokens such as 1.2.3 included.
C15_LoadNeverRaises ==
    conf_opens =>
       /\ conf_pc # "raised"
       /\ \A i \in 1 .. Len(conf_file) :
             (i < conf_i /\ IsKeyValueLine(i)) => KeyOfLine(i) \in DOMAIN config

\* the key=value lines whose key text is key
LinesOfKey(key) == {i \in 1 .. Len(conf_file) : IsKeyValueLine(i) /\ KeyOfLine(i) = key}

\* C16 (as claimed): after the load, get(k) with the key text k as written in
\* the file returns the coerced value of the last line for k and not the
\* default, for every key text, those with a "." included.
C16_KeysRetrievable ==
    (conf_pc = "got" /\ LinesOfKey(get_key) # {}) =>
       /\ get_ret # PyNone
       /\ get_ret = Coerce(TokenOfLine(Max(LinesOfKey(get_key))))

-----------------------------------------------------------------------------
(* Properties of main (specification Spec) *)

\* every stage of the list was executed and returned success
RunSucceeded ==
    /\ main_outcome = "run"
    /\ Len(stageRes) = Len(steps)
    /\ \A i \in 1 .. Len(stageRes) : stageRes[i] = "success"

\* C17: the process exit code is 0 exactly when the run succeeded overall (every
\* executed stage returned success, or --validate-only found all inputs, or --info
\* printed the status); it is 1 when a stage failed, when the initialization
\* failed or when the validation failed, whichever subject failed.
C17_ExitCode ==
    main_pc = "exited" =>
       /\ exit_code \in {<<0>>, <<1>>}
       /\ exit_code = <<0>> <=>
             (RunSucceeded \/ main_outcome = "validate_valid" \/ main_outcome = "info_printed")
       /\ main_outcome \in {"init_failed", "validate_invalid"} => exit_code = <<1>>
       /\ (main_outcome = "run" /\ \E i \in 1 .. Len(stageRes) : stageRes[i] # "success")
             => exit_code = <<1>>
       /\ (main_outcome = "run" /\ \E n \in 1 .. Len(calls) : ~calls[n].ok)
             => exit_code = <<1>>

\* C17 witness: the process ended with code 1 after a run of two subjects whose
\* first subject succeeded and whose second failed
C17_Witness ==
    /\ main_pc = "exited"
    /\ main_outcome = "run"
    /\ exit_code = <<1>>
    /\ Len(calls) = 2
    /\ calls[1].ok
    /\ ~calls[2].ok

-----------------------------------------------------------------------------
(* Ordering and the uniform stage contract (specification Spec) *)

\* the position of s in the list q
PosIn(q, s) == CHOOSE i \in 1 .. Len(q) : q[i] = s

\* C18: within a stage the per-subject procedure is invoked on the subjects in
\* the order of the given list; the invocations of the stage at position i are all
\* made, and the stage has returned, before the first invocation of the stage at
\* position i + 1: invocations of different stages never interleave.
C18_Ordering ==
    /\ \A n \in 1 .. Len(calls) - 1 :
          /\ calls[n].k <= calls[n + 1].k
          /\ calls[n].k = calls[n + 1].k =>
                PosIn(subjects, calls[n].s) < PosIn(subjects, calls[n + 1].s)
    /\ \A n \in 1 .. Len(calls) :
          /\ Len(stageRes) >= calls[n].k - 1
          /\ \A i \in 1 .. calls[n].k - 1 : stageRes[i] = "success"
    /\ pc = "loop" => Len(stageRes) = k - 1

\* C18 witness: two stages each invoked on the two subjects of a list that is not
\* in ascending order
C18_Witness ==
    /\ subjects = <<SubjectB, SubjectA>>
    /\ Len(calls) = 4
    /\ calls[1].k = 1 /\ calls[2].k = 1
    /\ calls[3].k = 2 /\ calls[4].k = 2
    /\ calls[1].s = SubjectB /\ calls[2].s = SubjectA
    /\ calls[3].s = SubjectB /\ calls[4].s = SubjectA

\* the subjects of the list whose output directory of the stage is missing or empty
MissingOrEmpty(F, subs, step) ==
    SelectSeq(subs, LAMBDA s : ~LedgerExists(F, s, get_step_suffix(step)))

\* C19 (as claimed): every stage, mni as the other five, run with force = false
\* first partitions the subjects through the output ledger and hands to the
\* per-subject procedure only the subjects whose stage output directory is
\* missing or empty.
C19_UniformStageContract ==
    [][ (pc = "begin" /\ ~force /\ pc' = "loop")
          => runList' = MissingOrEmpty(fs, subjects, steps[k]) ]_vars

-----------------------------------------------------------------------------
(* Failure of the volume build (specification SpecBuild) *)

\* C20 (as claimed): once the reference volume loads, the build over a tile_proc
\* file of joined records reports success and writes the volume, whatever the
\* records (empty X or Z fields included) and the block size; it fails only if
\* the reference does not load (a failed write of the results aside).
C20_BuildFailsOnlyOnReference ==
    (img_loads /\ df.cols = JoinedCols) =>
       /\ build_pc = "failed" => row_i > Len(df.rows)
       /\ build_pc = "done" => "mask" \in saved

-----------------------------------------------------------------------------
(* The subject list of the configuration (specification SpecConf) *)

\* the token is one or more runs of digits separated by ","
IsIntegerList(token) ==
    \A n \in 1 .. Len(Split(token, ",")) : ~IntOfRaises(Split(token, ",")[n])

\* the integers the token lists, in the listed order
ListedIntegers(token) ==
    [i \in 1 .. Len(Split(token, ",")) |-> [kind |-> "int", n |-> IntOf(Split(token, ",")[i])]]

\* C21 (as claimed): where the subject_list value of the file is one or more
\* comma-separated integers (a single integer included), get_subjects() without
\* an explicit list returns the list of these integers, in the listed order.
C21_SubjectsFromConfig ==
    ( /\ conf_pc \in {"subjects", "subjects_raised"}
      /\ get_key = <<"subject_list">>
      /\ LinesOfKey(<<"subject_list">>) # {}
      /\ IsIntegerList(TokenOfLine(Max(LinesOfKey(<<"subject_list">>)))) )
    => /\ conf_pc = "subjects"
       /\ get_ret = [kind |-> "list",
                     items |-> ListedIntegers(TokenOfLine(Max(LinesOfKey(<<"subject_list">>))))]

-----------------------------------------------------------------------------
(* Forced runs (specification Spec) *)

\* the files a stage computes for subject s (the upsample stage computes none: its
\* file is made by hand)
StageOutput(step, s) ==
    CASE step = "slice"     -> {SlicePng(s)}
      [] step = "extract"   -> {TileCoord(s), AT8File(s), TileProc(s)}
      [] step = "transform" -> {MaskBlock(s), TransCoords(s)}
      [] step = "kernel"    -> {Smoothed(s)}
      [] step = "mni"       -> {AffineMat(s), WarpNii(s), ToMNI(s)}
      [] OTHER              -> {}

\* the invocation computed the stage output again: it wrote the output files, or
\* launched the external tools that write them
Recomputed(call) ==
    CASE call.step = "slice" -> <<"Rscript", call.s>> \in call.ext
      [] call.step = "mni"   -> {<<"antsRegistrationSyN.sh", call.s>>,
                                 <<"antsApplyTransforms", call.s>>} \subseteq call.ext
      [] OTHER               -> StageOutput(call.step, call.s) \subseteq call.wrote

\* C22 (as claimed): in a forced run every successful invocation of a per-subject
\* procedure of a computing stage computes the subject's stage output again and
\* overwrites the files, also when the files of an earlier run were present when
\* the run began (the smoothed volume of kernel and the files of mni included).
C22_ForceRecomputes ==
    (force /\ ~dry_run) =>
       \A n \in 1 .. Len(calls) :
          ( /\ calls[n].ok
            /\ StageOutput(calls[n].step, calls[n].s) # {}
            /\ StageOutput(calls[n].step, calls[n].s) \subseteq fs0 )
          => Recomputed(calls[n])

-----------------------------------------------------------------------------
(* Failures of the anchor resolver (specification SpecAnchor) *)

\* the resolver logged its error line
LoadFailedLogged == \E n \in 1 .. Len(anchor_log) : anchor_log[n] = LoadFailed

-----------------------------------------------------------------------------
(* Termination of a run (specification SpecLive) *)

\* the run ended and every stage of the list returned success
Completed ==
    /\ pc = "done"
    /\ overall_success
    /\ Len(stageRes) = Len(steps)
    /\ \A i \in 1 .. Len(stageRes) : stageRes[i] = "success"

\* the run ended at the stage at position i, which did not return success
FailedAt(i) ==
    /\ pc = "done"
    /\ ~overall_success
    /\ Len(stageRes) = i
    /\ stageRes[i] # "success"
    /\ \A h \in 1 .. i - 1 : stageRes[h] = "success"

\* no entry of the stage list was executed twice, no subject invoked twice by one entry
NoRetry ==
    /\ \A n \in 1 .. Len(started) : started[n] = n
    /\ \A n \in 1 .. Len(calls) : \A m \in 1 .. Len(calls) :
          (n < m /\ calls[n].k = calls[m].k) => calls[n].s # calls[m].s

\* C24: every run of run_pipeline that is not interrupted from outside reaches a
\* terminal state, which is either "completed" or "failed at stage i" for one
\* position i; from then on no stage and no per-subject procedure is invoked, and
\* within the run no entry of the stage list is executed twice and no subject is
\* invoked twice by one entry.
C24_RunTerminates ==
    /\ (pc = "begin") ~> (pc = "done" \/ main_outcome = "interrupted")
    /\ [](pc = "done" =>
            /\ Completed \/ \E i \in 1 .. Len(steps) : FailedAt(i)
            /\ ~(Completed /\ \E i \in 1 .. Len(steps) : FailedAt(i))
            /\ Cardinality({i \in 1 .. Len(steps) : FailedAt(i)}) <= 1)
    /\ []NoRetry
    /\ [][pc = "done" => (pc' = "done" /\ calls' = calls /\ started' = started
                            /\ stageRes' = stageRes /\ launched' = launched /\ fs' = fs)]_vars

\* C24 witness: a run of two stages ended failed at its second stage, after the
\* stage's first subject had failed and its second subject had been invoked
C24_Witness ==
    /\ FailedAt(2)
    /\ Len(steps) = 2
    /\ Len(calls) = 4
    /\ ~calls[3].ok
    /\ calls[3].k = 2 /\ calls[4].k = 2

-----------------------------------------------------------------------------
(* Directories in a dry run (specification Spec) *)

\* C25 (as claimed): from the start of a dry run to its end the set of existing
\* directories is unchanged: no output base, logs, subject or stage directory is
\* made, for every stage list and subject list.
C25_DryRunNoDirectories ==
    (dry_run /\ pc # "idle") => Dirs(fs) = Dirs(fs0)

-----------------------------------------------------------------------------
(* The ledger after a failed subject (specification Spec) *)

\* the stage of invocation n never returned success for its subject in this run
NeverSucceeded(n) ==
    \A m \in 1 .. Len(calls) :
       (calls[m].step = calls[n].step /\ calls[m].s = calls[n].s) => ~calls[m].ok

\* C26 (as claimed): a subject whose per-subject procedure returned failure, whose
\* stage never succeeded for it in the run and whose stage output directory was
\* missing or empty when the run began, has a missing or empty stage output
\* directory afterwards, so that the ledger of a later run with force = false
\* does not prune it (the mni stage, which never consults the ledger, aside).
C26_FailedWorkNotDone ==
    ~dry_run =>
       \A n \in 1 .. Len(calls) :
          ( /\ ~calls[n].ok
            /\ NeverSucceeded(n)
            /\ calls[n].step # "mni"
            /\ ~LedgerExists(fs0, calls[n].s, get_step_suffix(calls[n].step)) )
          => ~LedgerExists(fs, calls[n].s, get_step_suffix(calls[n].step))

-----------------------------------------------------------------------------
(* Isolation of the subjects' measurements (specification SpecMeas) *)

\* the row is tagged for the subject: its tag begins with "<subject>-"
TaggedFor(row, subject_chars) ==
    /\ row.tag # None
    /\ Len(row.tag[1]) > Len(subject_chars)
    /\ SubSeq(row.tag[1], 1, Len(subject_chars) + 1) = subject_chars \o <<"-">>

\* the tile rows of the table tagged for the subject, in table order
RECURSIVE OwnTileRows(_, _)
OwnTileRows(rows, subject_chars) ==
    IF rows = <<>> THEN <<>>
    ELSE (IF /\ TaggedFor(Head(rows), subject_chars)
             /\ Head(rows).region # None
             /\ Head(Head(rows).region[1]) = "Tile"
          THEN <<[Tile |-> Head(rows).region[1], AT8_Value |-> Head(rows).value]>>
          ELSE <<>>) \o OwnTileRows(Tail(rows), subject_chars)

\* C27 (as claimed): the measurements extracted for a subject are the tile rows
\* tagged "<subject>-...", in table order, and hold no row tagged for another
\* subject (extracting for 66 takes no row tagged "966-A1").
C27_MeasurementIsolation ==
    meas_pc = "done" => at8_values = OwnTileRows(summary_df, meas_subject)

-----------------------------------------------------------------------------
(* The tile_proc file as the input of the build (specification SpecJoin) *)

\* lines 256-260 of _process_subject: the extract stage goes on to write its files
\* only where coordinates were extracted
CoordinatesExtracted == df_tiles # <<>>

\* C28 (as claimed): whenever the extract stage reports success, the tile_proc
\* file has the columns Tile, X, Z, AT8 and an integer X and Z in every row, on
\* every path of _create_processed_file, so that reading no record of it raises
\* in the build.
C28_ExtractOutputConsumable ==
    (join_pc = "done" /\ CoordinatesExtracted) =>
       /\ proc.cols = <<"Tile", "X", "Z", "AT8">>
       /\ \A r \in 1 .. Len(proc.rows) :
             /\ proc.rows[r][2] # None
             /\ proc.rows[r][3] # None
             /\ ~RecordRaises(proc, r)
-----------------------------------------------------------------------------
(* The frame of the stamping (specification SpecBuild) *)

\* the records processed so far that lie in the volume and whose cube of side
\* block_size, clipped to the volume, holds voxel v
CubesHolding(v) ==
    {r \in 1 .. Len(written) :
        /\ ~OutsideVolume(AbsCoord(df, r, manual_coords))
        /\ v \in ClaimedCube(AbsCoord(df, r, manual_coords), block_size)}

\* C29 (as claimed): a voxel in the clipped cube of no in-bounds record holds 0,
\* every written voxel index lies inside the shape on all three axes, every
\* stamped cube holds its centre on the slice y = YSlice of the anchor and
\* reaches at most block_size // 2 slices from it, and the volume has the shape
\* of the reference.
C29_StampingFrame ==
    /\ \A v \in Voxels : CubesHolding(v) = {} => mask[v] = 0
    /\ \A r \in 1 .. Len(written) : \A v \in written[r] :
          /\ 0 <= v[1] /\ v[1] < DimX
          /\ 0 <= v[2] /\ v[2] < DimY
          /\ 0 <= v[3] /\ v[3] < DimZ
    /\ \A r \in 1 .. Len(written) :
          written[r] # {} =>
             /\ AbsCoord(df, r, manual_coords) \in written[r]
             /\ AbsCoord(df, r, manual_coords)[2] = manual_coords[2]
             /\ \A v \in written[r] :
                   /\ v[2] - manual_coords[2] <= block_size \div 2
                   /\ manual_coords[2] - v[2] <= block_size \div 2
    /\ DOMAIN mask = (0 .. DimX - 1) \X (0 .. DimY - 1) \X (0 .. DimZ - 1)
-----------------------------------------------------------------------------
(* The representation of the subject identifier (specification Spec) *)

\* the verdicts the per-subject procedure of the stage can return from the
\* filesystem F for subject s passed in the given representation
Verdicts(step, F, s, representation) ==
    {out.ok : out \in process_subject(step, F, s, representation, dry_run)}

\* C30 (as claimed): from the same filesystem every stage's per-subject procedure
\* returns the same verdict whether the subject is passed as an integer or as
\* the string form of the same identifier; the kernel and mni stages succeed for
\* an integer subject whenever they succeed for the string form.
C30_VerdictIndependentOfRepresentation ==
    (pc = "loop" /\ j <= Len(runList)) =>
       Verdicts(steps[k], fs, runList[j], "int") = Verdicts(steps[k], fs, runList[j], "str")
====
